---- MODULE Spec2Model ----
(***************************************************************************)
(* Model of src/src/extension.ts (yaml-iframe-preview): the open-preview   *)
(* command, the per-document registry previewByDoc, the debounced          *)
(* snapshot sender, the content-source resolution and the demo server.     *)
(*                                                                         *)
(* Strings that the code parses (URLs) are sequences of lexical tokens,    *)
(* so that parsing, origin computation, HTML escaping and JSON quoting are *)
(* computed and not assumed.  Time is a clock of ticks; a host timer holds  *)
(* the ticks left until it is due and may fire late.  What the host does   *)
(* when the code uses a disposed panel (throw, or carry on) is left open.  *)
(* A rejection of showTextDocument is not modelled.                        *)
(***************************************************************************)
EXTENDS Integers, Sequences, FiniteSets, TLC

(***************************************************************************)
(* Bounds of the model.                                                    *)
(***************************************************************************)
\* invocations of the open command in one run
MaxOpens == 3
\* panels created in one run
MaxPanels == 2
\* document changes in one run of the streaming specification
MaxEdits == 2
\* document changes in one run of the other specifications
FewEdits == 1
\* invocations, and panels created, in one run of the streaming and
\* resolution specifications
FewPanels == 1
\* number of loopback ports the kernel can hand out
MaxPorts == 2
\* highest debounce delay configured, in clock ticks
MaxDelay == 2

Instances == 1..MaxOpens

(***************************************************************************)
(* URL values.  A value is a sequence of tokens; <<>> is the empty string. *)
(***************************************************************************)
UrlEmpty == <<>>
UrlHttps == <<"https", ":", "//", "ex.com", "/app">>
UrlHttpsUpper == <<"HTTPS", ":", "//", "ex.com", "/app">>
UrlHttpsPort == <<"https", ":", "//", "ex.com", ":", "8443", "/app">>
UrlHttpsDefaultPort == <<"https", ":", "//", "ex.com", ":", "443", "/app">>
UrlHttpsQuery == <<"https", ":", "//", "ex.com", "/app", "?a=1", "&", "b=2">>
UrlHttp == <<"http", ":", "//", "insecure.example">>
UrlNoHost == <<"https", ":", "//">>
UrlGarbage == <<"not a url">>

\* the values the setting yamlIframePreview.remoteUrl ranges over
RemoteValues ==
  { UrlEmpty, UrlHttps, UrlHttpsUpper, UrlHttpsPort, UrlHttpsDefaultPort,
    UrlHttpsQuery, UrlHttp, UrlNoHost, UrlGarbage }

SchemeTokens == {"https", "HTTPS", "http", "HTTP"}
HostTokens == {"ex.com", "insecure.example", "127.0.0.1"}

\* ASCII lower-casing of a scheme token, as the URL parser does
LowerScheme(tok) ==
  CASE tok = "HTTPS" -> "https"
    [] tok = "HTTP" -> "http"
    [] OTHER -> tok

DefaultPort(scheme) ==
  CASE scheme = "https" -> "443"
    [] scheme = "http" -> "80"
    [] OTHER -> ""

UrlFailure == [ok |-> FALSE, protocol |-> "", host |-> "", port |-> ""]

\* new URL(value): the parts the code reads.  ok = FALSE models the TypeError.
\* A special scheme needs a non-empty host; a port equal to the scheme's
\* default is dropped.
ParseUrl(value) ==
  IF Len(value) < 2 THEN UrlFailure
  ELSE IF value[1] \notin SchemeTokens \/ value[2] # ":" THEN UrlFailure
  ELSE
    LET scheme == LowerScheme(value[1])
        h == IF Len(value) >= 3 /\ value[3] = "//" THEN 4 ELSE 3
    IN IF Len(value) < h \/ value[h] \notin HostTokens THEN UrlFailure
       ELSE
         LET hasPort == Len(value) >= h + 2 /\ value[h + 1] = ":"
             port == IF hasPort /\ value[h + 2] # DefaultPort(scheme)
                     THEN value[h + 2] ELSE ""
         IN [ok |-> TRUE, protocol |-> <<scheme, ":">>,
             host |-> value[h], port |-> port]

\* an origin that leaves the port out
UrlOriginNoPort(u) == <<u.protocol[1], "://", u.host>>

\* URL.origin of a parsed http(s) URL: scheme://host[:port]
UrlOrigin(u) ==
  <<u.protocol[1], "://", u.host>> \o
    (IF u.port = "" THEN <<>> ELSE <<":", u.port>>)

\* isHttpsUrl: falsy value -> false; parse failure -> false (caught)
isHttpsUrlNoSchemeCheck(value) ==
  IF value = <<>> THEN FALSE
  ELSE ParseUrl(value).ok

isHttpsUrl(value) ==
  IF value = <<>> THEN FALSE
  ELSE LET u == ParseUrl(value)
       IN IF ~u.ok THEN FALSE ELSE u.protocol = <<"https", ":">>

(***************************************************************************)
(* resolveAppSrc and getWebviewHtml.                                       *)
(***************************************************************************)
\* demoUrl = undefined
NoUrl == <<"undefined">>

\* webview.asWebviewUri(<extension>/src/demo/index.html).toString(): a host
\* resource address, opaque to the extension
DemoWebviewUri == <<"webview-resource:", "/src/demo/index.html">>
\* webview.cspSource followed by " vscode-resource:"
BundledCsp == <<"cspSource", " ", "vscode-resource:">>
Wildcard == <<"*">>

\* the url startDemoServer returns for port p
DemoUrl(p) == <<"http", ":", "//", "127.0.0.1", ":", ToString(p), "/index.html">>

resolveAppSrcWildcard(remoteUrl, demoUrl, allowHttp) ==
  IF isHttpsUrl(remoteUrl)
  THEN [src |-> remoteUrl, frameSrcCsp |-> UrlOrigin(ParseUrl(remoteUrl)),
        targetOrigin |-> Wildcard]
  ELSE IF allowHttp /\ demoUrl # NoUrl
  THEN [src |-> demoUrl, frameSrcCsp |-> UrlOrigin(ParseUrl(demoUrl)),
        targetOrigin |-> Wildcard]
  ELSE [src |-> DemoWebviewUri, frameSrcCsp |-> BundledCsp,
        targetOrigin |-> Wildcard]

resolveAppSrc(remoteUrl, demoUrl, allowHttp) ==
  IF isHttpsUrl(remoteUrl)
  THEN LET origin == UrlOrigin(ParseUrl(remoteUrl))
       IN [src |-> remoteUrl, frameSrcCsp |-> origin, targetOrigin |-> origin]
  ELSE IF allowHttp /\ demoUrl # NoUrl
  THEN LET origin == UrlOrigin(ParseUrl(demoUrl))
       IN [src |-> demoUrl, frameSrcCsp |-> origin, targetOrigin |-> origin]
  ELSE [src |-> DemoWebviewUri, frameSrcCsp |-> BundledCsp,
        targetOrigin |-> Wildcard]

\* escapeHtml, token by token: & < > " ' become entities
EscapeToken(tok) ==
  CASE tok = "&" -> "&amp;"
    [] tok = "<" -> "&lt;"
    [] tok = ">" -> "&gt;"
    [] tok = "\"" -> "&quot;"
    [] tok = "'" -> "&#039;"
    [] OTHER -> tok

escapeHtml(input) == [k \in 1..Len(input) |-> EscapeToken(input[k])]

\* JSON.stringify of a string without characters that need escaping
JsonStringify(s) == <<"\"">> \o s \o <<"\"">>

NoHtml == [iframeSrc |-> <<>>, frameSrc |-> <<>>, relayTarget |-> <<>>,
           mode |-> "unset"]

\* the parts of the generated document that depend on the resolution
getWebviewHtml(remoteUrl, demoUrl, allowHttp) ==
  LET r == resolveAppSrc(remoteUrl, demoUrl, allowHttp)
  IN [iframeSrc |-> escapeHtml(r.src),
      frameSrc |-> r.frameSrcCsp,
      relayTarget |-> JsonStringify(r.targetOrigin),
      mode |-> IF isHttpsUrl(remoteUrl) THEN "remote" ELSE "local"]

(***************************************************************************)
(* What the browser makes of the generated document.                       *)
(***************************************************************************)
UnescapeToken(tok) ==
  CASE tok = "&amp;" -> "&"
    [] tok = "&lt;" -> "<"
    [] tok = "&gt;" -> ">"
    [] tok = "&quot;" -> "\""
    [] tok = "&#039;" -> "'"
    [] OTHER -> tok

\* the address the iframe loads: the src attribute, entities decoded
LoadedAddress(h) == [k \in 1..Len(h.iframeSrc) |-> UnescapeToken(h.iframeSrc[k])]

\* the string the relay script passes to postMessage: the literal, unquoted
RelayTargetOrigin(h) == SubSeq(h.relayTarget, 2, Len(h.relayTarget) - 1)

(***************************************************************************)
(* Documents of the host editor.                                           *)
(***************************************************************************)
DocA == [uri |-> "file:///a.yaml", languageId |-> "yaml",
         fsPath |-> <<"/a", ".yaml">>]
DocB == [uri |-> "file:///notes.YML", languageId |-> "plaintext",
         fsPath |-> <<"/notes", ".YML">>]
DocC == [uri |-> "file:///c.txt", languageId |-> "plaintext",
         fsPath |-> <<"/c", ".txt">>]
Documents == {DocA, DocB, DocC}
Uris == {d.uri : d \in Documents}
NoEditor == [uri |-> "none", languageId |-> "", fsPath |-> <<>>]
Editors == Documents \cup {NoEditor}
Texts == {"a: 1", "a: 2"}

\* String.prototype.toLowerCase on the extension token of a path
LowerExt(tok) ==
  CASE tok = ".YML" -> ".yml"
    [] tok = ".YAML" -> ".yaml"
    [] OTHER -> tok

EndsWith(path, suffix) ==
  Len(path) > 0 /\ LowerExt(path[Len(path)]) = suffix

\* a check that also takes every plain-text document for YAML
isYamlOrPlainText(doc) ==
  \/ doc.languageId \in {"yaml", "plaintext"}
  \/ EndsWith(doc.fsPath, ".yml")
  \/ EndsWith(doc.fsPath, ".yaml")

isYaml(doc) ==
  \/ doc.languageId = "yaml"
  \/ EndsWith(doc.fsPath, ".yml")
  \/ EndsWith(doc.fsPath, ".yaml")

(***************************************************************************)
(* Settings under yamlIframePreview, read by the open command.             *)
(***************************************************************************)
DebounceValues == {-1, 0, MaxDelay}
Settings ==
  [remoteUrl : RemoteValues, debounceMs : DebounceValues, allowHttp : BOOLEAN]

\* the setting taken as it is
DebounceMsUnclamped(c) == c.debounceMs

\* Math.max(0, cfg.get("debounceMs", 300))
DebounceMs(c) == IF c.debounceMs > 0 THEN c.debounceMs ELSE 0

\* how a run of the dispose listener (lines 87-91) ends: it runs through, or
\* disposable.dispose() throws, or demoServer.close() throws; the listener
\* catches nothing, so a throw ends it there
TeardownOutcomes == {"ran", "threwAtUnsubscribe", "threwAtServerStop"}

\* first port of the range the kernel assigns from
FirstPort == 54321
EphemeralPorts == FirstPort..(FirstPort + MaxPorts - 1)

\* the orders in which the kernel may hand out its ports
PortOrders ==
  {q \in [1..MaxPorts -> EphemeralPorts] :
     \A a, b \in 1..MaxPorts : a # b => q[a] # q[b]}
AscendingPorts == [k \in 1..MaxPorts |-> FirstPort + k - 1]

(***************************************************************************)
(* The request handler of the demo server (lines 226-242).  req.url is a   *)
(* sequence of tokens: the path, then "?" and what follows it.             *)
(***************************************************************************)
\* req.url undefined or empty
NoReqUrl == <<>>
ReqRoot == <<"/">>
ReqIndex == <<"/index.html">>
ReqRootQuery == <<"/", "?", "v=1">>
ReqIndexQuery == <<"/index.html", "?", "a=1", "?", "b">>
ReqMissing == <<"/missing.png">>
ReqMissingQuery == <<"/missing.png", "?", "/index.html">>
ReqIndexSlash == <<"/index.html", "/">>
ReqIndexUpper == <<"/INDEX.HTML">>
ReqOnlyQuery == <<"?", "/">>
RequestUrls ==
  {NoReqUrl, ReqRoot, ReqIndex, ReqRootQuery, ReqIndexQuery, ReqMissing,
   ReqMissingQuery, ReqIndexSlash, ReqIndexUpper, ReqOnlyQuery}

\* url.split("?")[0]
BeforeQuery(url) ==
  LET marks == {k \in 1..Len(url) : url[k] = "?"}
  IN IF marks = {} THEN url
     ELSE SubSeq(url, 1, (CHOOSE k \in marks : \A m \in marks : k <= m) - 1)

\* the contents of src/demo/index.html, opaque
DemoPayload == "src/demo/index.html"
NoHeader == <<>>
NoResponse ==
  [url |-> <<"none">>, readable |-> FALSE, statusCode |-> 0,
   contentType |-> NoHeader, body |-> "", read |-> FALSE]

\* a handler that compares the whole of req.url
demoResponseWholeUrl(url, readable) ==
  IF url # <<"/">> /\ url # <<"/index.html">> /\ url # <<>>
  THEN [statusCode |-> 404, contentType |-> NoHeader, body |-> "Not Found",
        read |-> FALSE]
  ELSE IF readable
  THEN [statusCode |-> 200, contentType |-> <<"text/html", "; charset=utf-8">>,
        body |-> DemoPayload, read |-> TRUE]
  ELSE [statusCode |-> 500, contentType |-> NoHeader,
        body |-> "Failed to load demo", read |-> TRUE]

\* what the handler answers to a request for url when fs.readFile succeeds
\* (readable) or rejects; read: whether readFile was called.  statusCode is
\* 200 unless the handler sets it.
demoResponse(url, readable) ==
  LET urlPath == IF url # <<>> THEN BeforeQuery(url) ELSE <<"/">>
  IN IF urlPath # <<"/">> /\ urlPath # <<"/index.html">>
     THEN [statusCode |-> 404, contentType |-> NoHeader, body |-> "Not Found",
           read |-> FALSE]
     ELSE IF readable
     THEN [statusCode |-> 200,
           contentType |-> <<"text/html", "; charset=utf-8">>,
           body |-> DemoPayload, read |-> TRUE]
     ELSE [statusCode |-> 500, contentType |-> NoHeader,
           body |-> "Failed to load demo", read |-> TRUE]

(***************************************************************************)
(* State.                                                                  *)
(***************************************************************************)
VARIABLES
  scope,        \* what one run may do: [opens, panels, edits], the editor
                \* states [editors] the command is invoked in, the documents
                \* [edited] that change, the order [ports] in which the
                \* kernel hands out ports, and the ways [teardown] a run of
                \* the dispose listener may end; never changes
  cfg,          \* the workspace settings; never change
  docs,         \* uri -> [version, text] of the host's document
  previewByDoc, \* uri -> the invocation whose {panel, disposable} is stored, 0 if none
  pc,           \* invocation -> where the open command stands
  key,          \* invocation -> doc.uri.toString(), "none" before line 28
  panel,        \* invocation -> "none" | "live" | "disposed"
  html,         \* invocation -> panel.webview.html
  server,       \* invocation -> state of the demo server it started
  port,         \* invocation -> port of its demo server, 0 if none
  subscribed,   \* invocation -> its onDidChangeTextDocument listener is attached
  handler,      \* invocation -> its onDidDispose listener: "none" |
                \* "registered" | how its run ended (TeardownOutcomes)
  timer,        \* invocation -> debounce's variable timer
  pending,      \* invocation -> delays left of the host timers it created, oldest first
  quiet,        \* invocation -> ticks since its sendUpdate was last called
  log,          \* invocation -> its calls of sendUpdate and of postMessage, in order
  res           \* invocation -> the request its demo server handled last and
                \* the response it gave, NoResponse if none

vars == <<scope, cfg, docs, previewByDoc, pc, key, panel, html, server, port,
          subscribed, handler, timer, pending, quiet, log, res>>

streamVars == <<timer, pending, quiet, log>>

\* everything but the scope of the run and the settings
Start ==
  /\ docs = [u \in Uris |-> [version |-> 1, text |-> "a: 1"]]
  /\ previewByDoc = [u \in Uris |-> 0]
  /\ pc = [i \in Instances |-> "idle"]
  /\ key = [i \in Instances |-> "none"]
  /\ panel = [i \in Instances |-> "none"]
  /\ html = [i \in Instances |-> NoHtml]
  /\ server = [i \in Instances |-> "none"]
  /\ port = [i \in Instances |-> 0]
  /\ subscribed = [i \in Instances |-> FALSE]
  /\ handler = [i \in Instances |-> "none"]
  /\ timer = [i \in Instances |-> "undefined"]
  /\ pending = [i \in Instances |-> <<>>]
  /\ quiet = [i \in Instances |-> 0]
  /\ log = [i \in Instances |-> <<>>]
  /\ res = [i \in Instances |-> NoResponse]

\* overlapping invocations: a secure and an insecure remote value, each
\* with and without allowHttp, the longest delay
Init ==
  /\ scope = [opens |-> MaxOpens, panels |-> MaxPanels, edits |-> FewEdits,
              editors |-> {DocA, DocB}, edited |-> Uris,
              ports |-> AscendingPorts, teardown |-> TeardownOutcomes]
  /\ cfg \in {c \in Settings :
               /\ c.remoteUrl \in {UrlHttps, UrlHttp}
               /\ c.debounceMs = MaxDelay
               /\ c.remoteUrl = UrlHttps => c.allowHttp}
  /\ Start

\* one session, edited repeatedly, under every delay, with and without a
\* demo server
InitStream ==
  /\ scope = [opens |-> FewPanels, panels |-> FewPanels, edits |-> MaxEdits,
              editors |-> {DocA, DocC, NoEditor},
              edited |-> {DocA.uri, DocB.uri}, ports |-> AscendingPorts,
              teardown |-> {"ran"}]
  /\ cfg \in {c \in Settings :
               /\ c.remoteUrl \in {UrlHttps, UrlEmpty}
               /\ c.allowHttp
               /\ c.remoteUrl = UrlEmpty <=> c.debounceMs = 0}
  /\ Start

\* one panel under every setting and every port the kernel may assign,
\* and one invocation more than panels; the command is invoked in every
\* editor state, or only in those without a YAML document
InitResolve ==
  /\ scope \in [opens : {FewPanels + 1}, panels : {FewPanels},
                 edits : {FewEdits},
                 editors : {Editors, {NoEditor, DocC}}, edited : {Uris},
                 ports : PortOrders, teardown : {{"ran"}}]
  /\ cfg \in Settings
  /\ Start

\* sessions of one document and the changes of that document, under the
\* longest delay with a secure remote value and under no delay with a demo
\* server
InitSync ==
  /\ scope = [opens |-> FewPanels, panels |-> FewPanels, edits |-> FewEdits,
              editors |-> {DocA}, edited |-> {DocA.uri},
              ports |-> AscendingPorts, teardown |-> {"ran"}]
  /\ cfg \in {c \in Settings :
               /\ c.remoteUrl \in {UrlHttps, UrlEmpty}
               /\ c.allowHttp
               /\ c.debounceMs \in {0, MaxDelay}
               /\ c.remoteUrl = UrlEmpty <=> c.debounceMs = 0}
  /\ Start

\* sessions of one document without a secure remote value, so that each
\* starts a demo server
InitServe ==
  /\ scope = [opens |-> FewPanels, panels |-> FewPanels, edits |-> FewEdits,
              editors |-> {DocA}, edited |-> {DocA.uri},
              ports |-> AscendingPorts, teardown |-> {"ran"}]
  /\ cfg \in {c \in Settings :
               /\ c.remoteUrl \in {UrlEmpty, UrlHttp}
               /\ c.debounceMs = MaxDelay}
  /\ Start

(***************************************************************************)
(* debounce: the returned wrapper and the host's timers.                   *)
(***************************************************************************)
RemoveAt(q, k) == SubSeq(q, 1, k - 1) \o SubSeq(q, k + 1, Len(q))

\* clearTimeout(t): cancels the timer t names if it has not fired yet.  The
\* variable timer always names the timer created last.
ClearTimeout(t, q) == IF t = "pending" THEN RemoveAt(q, Len(q)) ELSE q

\* a wrapper that never clears the timer it replaces
debounceCallNoClear(t, q, delayMs) ==
  [timer |-> "pending", queue |-> Append(q, delayMs)]

\* a wrapper that arms a timer only once
debounceCallOnce(t, q, delayMs) ==
  IF t # "undefined" THEN [timer |-> t, queue |-> q]
  ELSE [timer |-> "pending", queue |-> Append(q, delayMs)]

\* one call of the wrapper: if (timer) clearTimeout(timer);
\* timer = setTimeout(..., delayMs)
debounceCall(t, q, delayMs) ==
  LET cleared == IF t # "undefined" THEN ClearTimeout(t, q) ELSE q
  IN [timer |-> "pending", queue |-> Append(cleared, delayMs)]

\* log entries: a call of sendUpdate with the document as it is then, and a
\* call of postMessage with its payload; each with the ticks since the
\* previous call of sendUpdate and whether the panel is still open
SchedEntry(i, d) ==
  [kind |-> "sched", version |-> d.version, text |-> d.text,
   elapsed |-> quiet[i], live |-> panel[i] = "live"]

\* a payload built from the document as it was when sendUpdate was called
SendEntryAsScheduled(i, d, isLive) ==
  LET calls == {k \in 1..Len(log[i]) : log[i][k].kind = "sched"}
      last == CHOOSE k \in calls : \A m \in calls : m <= k
  IN [kind |-> "send", version |-> log[i][last].version,
      text |-> log[i][last].text, elapsed |-> quiet[i], live |-> isLive]

SendEntry(i, d, isLive) ==
  [kind |-> "send", version |-> d.version, text |-> d.text,
   elapsed |-> quiet[i], live |-> isLive]

RECURSIVE SumOfEdits(_)
SumOfEdits(S) ==
  IF S = {} THEN 0
  ELSE LET u == CHOOSE x \in S : TRUE
       IN (docs[u].version - 1) + SumOfEdits(S \ {u})

\* document changes so far (every change raises a version by one)
Edits == SumOfEdits(Uris)

\* panels created so far
Panels == Cardinality({i \in Instances : panel[i] # "none"})

(***************************************************************************)
(* The open command (lines 10-94), one action per stretch between awaits.  *)
(***************************************************************************)
\* invocations are numbered in the order they start
NextInstance(i) ==
  i <= scope.opens /\ pc[i] = "idle" /\ \A j \in Instances : j < i => pc[j] # "idle"

\* lines 64-93 without the initial call of sendUpdate of line 80
CompleteNoInitialSend(i, demoUrl) ==
  /\ html' = [html EXCEPT ![i] =
                getWebviewHtml(cfg.remoteUrl, demoUrl, cfg.allowHttp)]
  /\ UNCHANGED streamVars
  /\ subscribed' = [subscribed EXCEPT ![i] = TRUE]
  /\ handler' = [handler EXCEPT ![i] = "registered"]
  /\ previewByDoc' = [previewByDoc EXCEPT ![key[i]] = i]
  /\ pc' = [pc EXCEPT ![i] = "done"]

\* lines 64-93, run without interruption: set the html, call sendUpdate
\* once, subscribe, register the dispose listener, store the entry
Complete(i, demoUrl) ==
  LET d == debounceCall(timer[i], pending[i], DebounceMs(cfg))
  IN /\ html' = [html EXCEPT ![i] =
                   getWebviewHtml(cfg.remoteUrl, demoUrl, cfg.allowHttp)]
     /\ timer' = [timer EXCEPT ![i] = d.timer]
     /\ pending' = [pending EXCEPT ![i] = d.queue]
     /\ log' = [log EXCEPT ![i] = Append(@, SchedEntry(i, docs[key[i]]))]
     /\ quiet' = [quiet EXCEPT ![i] = 0]
     /\ subscribed' = [subscribed EXCEPT ![i] = TRUE]
     /\ handler' = [handler EXCEPT ![i] = "registered"]
     /\ previewByDoc' = [previewByDoc EXCEPT ![key[i]] = i]
     /\ pc' = [pc EXCEPT ![i] = "done"]

\* lines 11-36: the checks, the lookup, and the call of showTextDocument
OpenCmd(i, editor) ==
  /\ NextInstance(i)
  /\ editor \in scope.editors
  /\ IF editor = NoEditor
     THEN /\ pc' = [pc EXCEPT ![i] = "noEditor"]
          /\ UNCHANGED key
     ELSE IF ~isYaml(editor)
     THEN /\ pc' = [pc EXCEPT ![i] = "notYaml"]
          /\ UNCHANGED key
     ELSE IF previewByDoc[editor.uri] # 0
     THEN /\ pc' = [pc EXCEPT ![i] = "revealed"]
          /\ key' = [key EXCEPT ![i] = editor.uri]
     ELSE /\ Cardinality({j \in Instances : pc[j] = "showDoc"}) + Panels < scope.panels
          /\ pc' = [pc EXCEPT ![i] = "showDoc"]
          /\ key' = [key EXCEPT ![i] = editor.uri]
  /\ UNCHANGED <<scope, cfg, res, docs, previewByDoc, panel, html, server, port,
                 subscribed, handler, streamVars>>

\* lines 38-59: showTextDocument has resolved; create the panel, read the
\* settings, and either start the demo server or go on to line 64
CreatePanel(i) ==
  /\ pc[i] = "showDoc"
  /\ panel' = [panel EXCEPT ![i] = "live"]
  /\ IF ~isHttpsUrl(cfg.remoteUrl)
     THEN /\ pc' = [pc EXCEPT ![i] = "startServer"]
          /\ server' = [server EXCEPT ![i] = "binding"]
          /\ UNCHANGED <<html, subscribed, handler, previewByDoc, streamVars>>
     ELSE /\ Complete(i, NoUrl)
          /\ UNCHANGED server
  /\ UNCHANGED <<scope, cfg, res, docs, key, port>>

PortsInUse == {port[j] : j \in {k \in Instances : server[k] = "listening"}}
FreeSlots == {k \in 1..MaxPorts : scope.ports[k] \notin PortsInUse}
\* server.listen(0, "127.0.0.1"): the port the kernel assigns next
AssignedPort == scope.ports[CHOOSE k \in FreeSlots : \A m \in FreeSlots : k <= m]

\* startDemoServer lines 244-257 and the open command from line 60: the
\* server listens on a port the kernel chose.  If the panel was closed
\* meanwhile, the host either throws on panel.webview (line 64) or lets the
\* code run on.
ServerBound(i, hostThrows) ==
  /\ pc[i] = "startServer"
  /\ FreeSlots # {}
  /\ hostThrows => panel[i] = "disposed"
  /\ server' = [server EXCEPT ![i] = "listening"]
  /\ port' = [port EXCEPT ![i] = AssignedPort]
  /\ IF hostThrows
     THEN /\ pc' = [pc EXCEPT ![i] = "failed"]
          /\ UNCHANGED <<html, subscribed, handler, previewByDoc, streamVars>>
     ELSE Complete(i, DemoUrl(AssignedPort))
  /\ UNCHANGED <<scope, cfg, res, docs, key, panel>>

\* startDemoServer lines 244-253: listen fails ("error"), or the address is
\* unusable and the server is closed again; either way the promise rejects,
\* and the open command, which does not catch, ends at line 59
ServerFails(i, how) ==
  /\ pc[i] = "startServer"
  /\ how \in {"bindError", "noAddress"}
  /\ server' = [server EXCEPT ![i] = how]
  /\ pc' = [pc EXCEPT ![i] = "failed"]
  /\ UNCHANGED <<scope, cfg, res, docs, previewByDoc, key, panel, html, port,
                 subscribed, handler, streamVars>>

(***************************************************************************)
(* Events of the host.                                                     *)
(***************************************************************************)
\* the panel is closed; the listener of lines 87-91 runs if it is
\* registered: line 88, then line 89 if demoServer is set, then line 90.  A
\* call that throws has no effect and ends the listener.
ClosePanel(i, outcome) ==
  /\ panel[i] = "live"
  /\ outcome \in scope.teardown
  /\ outcome # "ran" => handler[i] = "registered"
  /\ outcome = "threwAtServerStop" => server[i] = "listening"
  /\ panel' = [panel EXCEPT ![i] = "disposed"]
  /\ IF handler[i] = "registered"
     THEN /\ subscribed' = [subscribed EXCEPT ![i] =
                              IF outcome = "threwAtUnsubscribe" THEN @ ELSE FALSE]
          /\ server' = [server EXCEPT ![i] =
                          IF outcome = "ran" /\ @ = "listening" THEN "closed" ELSE @]
          /\ previewByDoc' = IF outcome = "ran"
                             THEN [previewByDoc EXCEPT ![key[i]] = 0]
                             ELSE previewByDoc
          /\ handler' = [handler EXCEPT ![i] = outcome]
     ELSE UNCHANGED <<subscribed, server, previewByDoc, handler>>
  /\ UNCHANGED <<scope, cfg, res, docs, pc, key, html, port, streamVars>>

\* a listener without the filter of line 83
NotifiedOfAnyDocument(i, u) == subscribed[i]

\* lines 82-85, for the listener of invocation i and a change of document u
Notified(i, u) == subscribed[i] /\ ~(u # key[i])

\* the host changes the text of document u to t and calls every attached
\* change listener
DocChange(u, t) ==
  /\ Edits < scope.edits
  /\ u \in scope.edited
  /\ t # docs[u].text
  /\ docs' = [docs EXCEPT ![u] = [version |-> @.version + 1, text |-> t]]
  /\ timer' = [i \in Instances |->
       IF Notified(i, u)
       THEN debounceCall(timer[i], pending[i], DebounceMs(cfg)).timer
       ELSE timer[i]]
  /\ pending' = [i \in Instances |->
       IF Notified(i, u)
       THEN debounceCall(timer[i], pending[i], DebounceMs(cfg)).queue
       ELSE pending[i]]
  /\ log' = [i \in Instances |->
       IF Notified(i, u) THEN Append(log[i], SchedEntry(i, docs'[u]))
       ELSE log[i]]
  /\ quiet' = [i \in Instances |-> IF Notified(i, u) THEN 0 ELSE quiet[i]]
  /\ UNCHANGED <<scope, cfg, res, previewByDoc, pc, key, panel, html, server, port,
                 subscribed, handler>>

\* one clock tick passes
Tick ==
  /\ pending' = [i \in Instances |->
       [k \in 1..Len(pending[i]) |->
          IF pending[i][k] > 0 THEN pending[i][k] - 1 ELSE 0]]
  /\ quiet' = [i \in Instances |->
       IF log[i] # <<>> /\ quiet[i] < DebounceMs(cfg) THEN quiet[i] + 1 ELSE quiet[i]]
  /\ UNCHANGED <<scope, cfg, res, docs, previewByDoc, pc, key, panel, html, server, port,
                 subscribed, handler, timer, log>>

\* the k-th timer of invocation i is due and its callback (lines 66-77)
\* runs.  On a closed panel the host either throws on panel.webview or lets
\* postMessage be called.
TimerFires(i, k, hostThrows) ==
  /\ k \in 1..Len(pending[i])
  /\ pending[i][k] = 0
  /\ hostThrows => panel[i] = "disposed"
  /\ pending' = [pending EXCEPT ![i] = RemoveAt(@, k)]
  /\ timer' = [timer EXCEPT ![i] =
                 IF @ = "pending" /\ k = Len(pending[i]) THEN "fired" ELSE @]
  /\ log' = [log EXCEPT ![i] =
               IF hostThrows THEN @
               ELSE Append(@, SendEntry(i, docs[key[i]], panel[i] = "live"))]
  /\ UNCHANGED <<scope, cfg, res, docs, previewByDoc, pc, key, panel, html, server, port,
                 subscribed, handler, quiet>>

\* some due timer of invocation i fires
TimerFiresAny(i) ==
  \E k \in 1..Len(pending[i]), hostThrows \in BOOLEAN :
    TimerFires(i, k, hostThrows)

\* the demo server of invocation i handles a request for url; reading the
\* payload succeeds or fails
Request(i, url, readable) ==
  /\ server[i] = "listening"
  /\ res' = [res EXCEPT ![i] =
               [url |-> url, readable |-> readable] @@ demoResponse(url, readable)]
  /\ UNCHANGED <<scope, cfg, docs, previewByDoc, pc, key, panel, html, server,
                 port, subscribed, handler, streamVars>>

\* the steps of the open command alone
NextOpen ==
  \/ \E i \in Instances, editor \in Editors : OpenCmd(i, editor)
  \/ \E i \in Instances : CreatePanel(i)
  \/ \E i \in Instances, hostThrows \in BOOLEAN : ServerBound(i, hostThrows)
  \/ \E i \in Instances, how \in {"bindError", "noAddress"} : ServerFails(i, how)

Next ==
  \/ \E i \in Instances, editor \in Editors : OpenCmd(i, editor)
  \/ \E i \in Instances : CreatePanel(i)
  \/ \E i \in Instances, hostThrows \in BOOLEAN : ServerBound(i, hostThrows)
  \/ \E i \in Instances, how \in {"bindError", "noAddress"} : ServerFails(i, how)
  \/ \E i \in Instances, outcome \in TeardownOutcomes : ClosePanel(i, outcome)
  \/ \E u \in Uris, t \in Texts : DocChange(u, t)
  \/ Tick
  \/ \E i \in Instances : TimerFiresAny(i)

\* the open command, closures, and requests to the demo servers
NextServe ==
  \/ \E i \in Instances, editor \in Editors : OpenCmd(i, editor)
  \/ \E i \in Instances : CreatePanel(i)
  \/ \E i \in Instances, hostThrows \in BOOLEAN : ServerBound(i, hostThrows)
  \/ \E i \in Instances, how \in {"bindError", "noAddress"} : ServerFails(i, how)
  \/ \E i \in Instances, outcome \in TeardownOutcomes : ClosePanel(i, outcome)
  \/ \E i \in Instances, url \in RequestUrls, readable \in BOOLEAN :
       Request(i, url, readable)

\* overlapping invocations, closures, edits and timers
Spec == Init /\ [][Next]_vars
\* one session and its stream of snapshots
SpecStream == InitStream /\ [][Next]_vars
\* sessions of one document and its changes, with a clock that keeps
\* running while a timer waits for it and a host that runs the callback of
\* every timer that is due
SpecStreamFair ==
  /\ InitSync
  /\ [][Next]_vars
  /\ WF_vars(Tick)
  /\ \A i \in Instances : WF_vars(TimerFiresAny(i))
\* the open command under every setting: what it resolves and generates
SpecResolve == InitResolve /\ [][NextOpen]_vars
\* sessions with a demo server and the requests it answers
SpecServe == InitServe /\ [][NextServe]_vars

(***************************************************************************)
(* Notions the properties are stated in.                                   *)
(***************************************************************************)
\* the remote values that are valid URLs with the https scheme, and the
\* origin of each, written out by hand
SecureRemotes ==
  {UrlHttps, UrlHttpsUpper, UrlHttpsPort, UrlHttpsDefaultPort, UrlHttpsQuery}

LoopbackOrigin(p) == <<"http", "://", "127.0.0.1", ":", ToString(p)>>

\* the address http://127.0.0.1:p/index.html
LoopbackAddress(p) ==
  <<"http", ":", "//", "127.0.0.1", ":", ToString(p), "/index.html">>

AddressOrigin(a) ==
  CASE a = UrlHttpsPort -> <<"https", "://", "ex.com", ":", "8443">>
    [] a \in SecureRemotes \ {UrlHttpsPort} -> <<"https", "://", "ex.com">>
    [] \E p \in EphemeralPorts : a = DemoUrl(p) ->
         LoopbackOrigin(CHOOSE p \in EphemeralPorts : a = DemoUrl(p))
    [] OTHER -> <<"no origin">>

\* the content source a generated document stands for, told by the address
\* its iframe loads
ContentKind(h) ==
  CASE LoadedAddress(h) = DemoWebviewUri -> "LocalBundled"
    [] \E p \in EphemeralPorts : LoadedAddress(h) = DemoUrl(p) -> "LocalServed"
    [] OTHER -> "Remote"

\* the sessions of document u: a panel that is open, with its change listener
LiveSessions(u) ==
  {i \in Instances : key[i] = u /\ panel[i] = "live" /\ subscribed[i]}

Last(q) == q[Len(q)]

\* an open command is suspended at one of its awaits
InFlight(i) == pc[i] \in {"showDoc", "startServer"}

(***************************************************************************)
(* C1.  At most one live preview session per document, in every reachable  *)
(* state, also when a second open command for the document starts while    *)
(* an earlier one is suspended at showTextDocument or startDemoServer.     *)
(***************************************************************************)
C1_AtMostOneSession == \A u \in Uris : Cardinality(LiveSessions(u)) <= 1

(***************************************************************************)
(* C2.  When the registry holds an open panel for document d, a further    *)
(* open command for d only reveals: it creates no panel, server, listener  *)
(* or timer, leaves the registry as it is, and exactly one live session    *)
(* for d exists afterwards.                                                *)
(***************************************************************************)
RevealStep(i) ==
  /\ pc[i] = "idle"
  /\ pc'[i] = "revealed"
  /\ panel[previewByDoc[key'[i]]] = "live"

C2_RevealAllocatesNothing ==
  [][\A i \in Instances :
       RevealStep(i) =>
         /\ UNCHANGED <<previewByDoc, panel, html, server, port, subscribed,
                        handler, timer, pending>>
         /\ Cardinality({j \in Instances :
               key'[j] = key'[i] /\ panel'[j] = "live" /\ subscribed'[j]}) = 1]_vars

(***************************************************************************)
(* C3.  postMessage is never called for a session whose panel has been     *)
(* disposed: a timer that fires after the disposal sends nothing.          *)
(***************************************************************************)
C3_NoSendAfterDispose ==
  \A i \in Instances : \A k \in 1..Len(log[i]) :
    log[i][k].kind = "send" => log[i][k].live

(***************************************************************************)
(* C4.  Trailing-edge coalescing.  While the panel is open: every snapshot *)
(* is sent a full delay after the last call of sendUpdate and carries the  *)
(* version and text of that last notification; no snapshot is sent         *)
(* between two notifications less than the delay apart; and after the last *)
(* notification of a burst exactly one timer is pending, none once its     *)
(* snapshot is sent.  So a burst yields exactly one snapshot.              *)
(***************************************************************************)
C4_TrailingEdgeCoalescing ==
  \A i \in Instances :
    /\ \A k \in 1..Len(log[i]) :
         /\ (log[i][k].kind = "send" /\ log[i][k].live) =>
              /\ k > 1
              /\ log[i][k - 1].kind = "sched"
              /\ log[i][k].elapsed >= DebounceMs(cfg)
              /\ log[i][k].version = log[i][k - 1].version
              /\ log[i][k].text = log[i][k - 1].text
         /\ (log[i][k].kind = "sched" /\ k > 1
               /\ log[i][k].elapsed < DebounceMs(cfg)) =>
              log[i][k - 1].kind = "sched"
    /\ (panel[i] = "live" /\ log[i] # <<>>) =>
         Len(pending[i]) = (IF Last(log[i]).kind = "sched" THEN 1 ELSE 0)

\* a burst of two notifications, the second less than the delay after the
\* first, has been answered by one snapshot of the second one's version
C4_Witness ==
  \E i \in Instances : \E k \in 1..Len(log[i]) :
    /\ k >= 3
    /\ log[i][k].kind = "send" /\ log[i][k].live
    /\ log[i][k - 1].kind = "sched" /\ log[i][k - 2].kind = "sched"
    /\ log[i][k - 1].elapsed > 0
    /\ log[i][k - 1].elapsed < DebounceMs(cfg)
    /\ log[i][k].version = log[i][k - 1].version
    /\ log[i][k - 1].version > log[i][k - 2].version
    /\ log[i][k - 1].text # log[i][k - 2].text

(***************************************************************************)
(* C5.  Two notifications of which the first one's timer has fired before  *)
(* the second arrives produce two snapshots, one per notification and in   *)
(* that order: the first snapshot carries the first notification's         *)
(* version, and the second notification arms a timer of its own, whose     *)
(* snapshot carries the second one's version.                              *)
(***************************************************************************)
SpacedPair(i, k) ==
  /\ k + 2 <= Len(log[i])
  /\ log[i][k].kind = "sched"
  /\ log[i][k + 1].kind = "send" /\ log[i][k + 1].live
  /\ log[i][k + 2].kind = "sched"

C5_SpacedNotificationsBothSent ==
  \A i \in Instances : \A k \in 1..Len(log[i]) :
    SpacedPair(i, k) =>
      /\ log[i][k + 1].version = log[i][k].version
      /\ log[i][k + 2].elapsed >= DebounceMs(cfg)
      /\ (Len(log[i]) = k + 2 /\ panel[i] = "live") => Len(pending[i]) = 1
      /\ (Len(log[i]) >= k + 3 /\ log[i][k + 3].kind = "send"
            /\ log[i][k + 3].live) =>
           /\ log[i][k + 3].version = log[i][k + 2].version
           /\ log[i][k + 3].text = log[i][k + 2].text
           /\ log[i][k + 1].version <= log[i][k + 3].version

\* two change notifications, each answered by its own snapshot, under a
\* positive delay
C5_Witness ==
  \E i \in Instances : \E k \in 1..Len(log[i]) :
    /\ k >= 2
    /\ SpacedPair(i, k)
    /\ Len(log[i]) >= k + 3
    /\ log[i][k + 3].kind = "send" /\ log[i][k + 3].live
    /\ log[i][k + 1].version < log[i][k + 3].version
    /\ DebounceMs(cfg) > 0

(***************************************************************************)
(* C6.  Whatever the remote value, allowHttp and the server's outcome: the *)
(* generated document loads the remote value (with the value's origin as   *)
(* message target) exactly if the value is a valid https URL; any other    *)
(* value is never loaded, and no invocation ends in an error unless the    *)
(* demo server failed or the panel was closed under it.                    *)
(***************************************************************************)
C6_RemoteIffHttps ==
  \A i \in Instances :
    /\ html[i] # NoHtml =>
         /\ ContentKind(html[i]) = "Remote" <=> cfg.remoteUrl \in SecureRemotes
         /\ cfg.remoteUrl \in SecureRemotes =>
              /\ LoadedAddress(html[i]) = cfg.remoteUrl
              /\ RelayTargetOrigin(html[i]) = AddressOrigin(cfg.remoteUrl)
         /\ cfg.remoteUrl \notin SecureRemotes =>
              LoadedAddress(html[i]) # cfg.remoteUrl
    /\ pc[i] = "failed" =>
         server[i] \in {"bindError", "noAddress"} \/ panel[i] = "disposed"

\* an https URL written in capitals has been resolved as the remote source
C6_Witness ==
  \E i \in Instances :
    /\ cfg.remoteUrl = UrlHttpsUpper
    /\ html[i] # NoHtml
    /\ ContentKind(html[i]) = "Remote"

(***************************************************************************)
(* C7.  With allowHttp false and a remote value that is absent, malformed  *)
(* or not https, an open command starts no demo server and resolves to the *)
(* bundled page.                                                           *)
(***************************************************************************)
C7_NoServerWithoutAllowHttp ==
  (~cfg.allowHttp /\ cfg.remoteUrl \notin SecureRemotes) =>
    \A i \in Instances :
      /\ server[i] = "none"
      /\ html[i] # NoHtml => ContentKind(html[i]) = "LocalBundled"

(***************************************************************************)
(* C8.  A demo server that fails to start does not abort the open command: *)
(* the command completes with the bundled page, the initial snapshot       *)
(* scheduled and the dispose listener registered.                          *)
(***************************************************************************)
C8_ServerFailureDegrades ==
  \A i \in Instances :
    server[i] \in {"bindError", "noAddress"} =>
      /\ pc[i] = "done"
      /\ ContentKind(html[i]) = "LocalBundled"
      /\ log[i] # <<>>
      /\ handler[i] # "none"

(***************************************************************************)
(* C9.  In every generated document the relay script's target origin is    *)
(* the wildcard exactly if the content source is the bundled page; for a   *)
(* remote or locally served source the target origin and the frame-src     *)
(* origin are both the origin of the address the iframe loads.             *)
(***************************************************************************)
C9_TargetOriginPinned ==
  \A i \in Instances :
    html[i] # NoHtml =>
      /\ RelayTargetOrigin(html[i]) = Wildcard
           <=> ContentKind(html[i]) = "LocalBundled"
      /\ ContentKind(html[i]) \in {"Remote", "LocalServed"} =>
           /\ RelayTargetOrigin(html[i]) = AddressOrigin(LoadedAddress(html[i]))
           /\ html[i].frameSrc = AddressOrigin(LoadedAddress(html[i]))

\* a locally served page on the second port, pinned to its loopback origin
C9_Witness ==
  \E i \in Instances :
    /\ html[i] # NoHtml
    /\ ContentKind(html[i]) = "LocalServed"
    /\ port[i] = FirstPort + 1
    /\ RelayTargetOrigin(html[i]) = LoopbackOrigin(FirstPort + 1)

(***************************************************************************)
(* C10.  Once the dispose listener of a session has run, the session has   *)
(* no pending timer, no change listener, no listening server and no        *)
(* registry entry.                                                         *)
(***************************************************************************)
C10_TeardownComplete ==
  \A i \in Instances :
    handler[i] = "ran" =>
      /\ pending[i] = <<>>
      /\ ~subscribed[i]
      /\ server[i] # "listening"
      /\ previewByDoc[key[i]] # i

(***************************************************************************)
(* C11.  The steps of the teardown are individually best-effort: when the  *)
(* unsubscription or the stop of the server throws, the other steps are    *)
(* still carried out and the session is still removed from previewByDoc.   *)
(***************************************************************************)
C11_TeardownBestEffort ==
  \A i \in Instances :
    /\ handler[i] = "threwAtUnsubscribe" =>
         /\ server[i] # "listening"
         /\ previewByDoc[key[i]] # i
    /\ handler[i] = "threwAtServerStop" =>
         /\ ~subscribed[i]
         /\ previewByDoc[key[i]] # i

(***************************************************************************)
(* C12.  The closure of a panel removes its session from the registry,     *)
(* whenever it happens, also while the open command is still suspended at  *)
(* startDemoServer.  So whenever no open command is in flight, previewByDoc *)
(* has an entry for a document exactly if an open panel for the document   *)
(* exists, and the entry is that panel's.                                  *)
(***************************************************************************)
C12_RegistryTracksPanels ==
  (\A i \in Instances : ~InFlight(i)) =>
    \A u \in Uris :
      /\ previewByDoc[u] # 0 <=>
           \E i \in Instances : key[i] = u /\ panel[i] = "live"
      /\ previewByDoc[u] # 0 =>
           key[previewByDoc[u]] = u /\ panel[previewByDoc[u]] = "live"

(***************************************************************************)
(* C16.  Every demo server an open command started is stopped once its     *)
(* panel is closed: when every panel is disposed and no open command is in *)
(* flight, no server is listening, whatever the interleaving, also when    *)
(* the panel is closed while the command awaits the start of the server.   *)
(***************************************************************************)
C16_NoServerOutlivesPanels ==
  ((\A i \in Instances : panel[i] # "live") /\ (\A i \in Instances : ~InFlight(i))) =>
    \A i \in Instances : server[i] # "listening"

(***************************************************************************)
(* C13.  An open command invoked with no active editor, or on a document   *)
(* that is not YAML (languageId not yaml, path not ending in .yml or       *)
(* .yaml), only shows a notice: the step changes no panel, server,         *)
(* subscription, timer or registry entry, and a run in which the command   *)
(* is only ever invoked so allocates nothing at all.                       *)
(***************************************************************************)
NoticeStep(i) == pc[i] = "idle" /\ pc'[i] \in {"noEditor", "notYaml"}

NothingAllocated ==
  /\ \A u \in Uris : previewByDoc[u] = 0
  /\ \A i \in Instances :
       /\ panel[i] = "none" /\ html[i] = NoHtml
       /\ server[i] = "none" /\ port[i] = 0
       /\ ~subscribed[i] /\ handler[i] = "none"
       /\ timer[i] = "undefined" /\ pending[i] = <<>> /\ log[i] = <<>>

C13_NoticeOnly ==
  /\ [](scope.editors \subseteq {NoEditor, DocC} => NothingAllocated)
  /\ [][\A i \in Instances :
          NoticeStep(i) =>
            UNCHANGED <<docs, previewByDoc, key, panel, html, server, port,
                        subscribed, handler, timer, pending, quiet, log>>]_vars

\* the notice for a document that is not YAML has been shown to an
\* invocation that came after the one whose session is registered
C13_Witness ==
  \E i, j \in Instances :
    /\ j < i
    /\ pc[i] = "notYaml"
    /\ pc[j] = "done" /\ previewByDoc[key[j]] = j /\ panel[j] = "live"

(***************************************************************************)
(* C14.  With a remote value that is not a valid https URL, allowHttp true *)
(* and the demo server listening on port p, the generated document loads   *)
(* http://127.0.0.1:p/index.html, and its frame-src origin and its message *)
(* target origin are both http://127.0.0.1:p.                              *)
(***************************************************************************)
C14_LocalServedOnLoopback ==
  \A i \in Instances :
    (/\ cfg.remoteUrl \notin SecureRemotes
     /\ cfg.allowHttp
     /\ server[i] = "listening"
     /\ html[i] # NoHtml) =>
      /\ ContentKind(html[i]) = "LocalServed"
      /\ LoadedAddress(html[i]) = LoopbackAddress(port[i])
      /\ html[i].frameSrc = LoopbackOrigin(port[i])
      /\ RelayTargetOrigin(html[i]) = LoopbackOrigin(port[i])

\* an http remote value, allowHttp set, the server on the first port: the
\* document loads the loopback address, not the remote value
C14_Witness ==
  \E i \in Instances :
    /\ cfg.remoteUrl = UrlHttp /\ cfg.allowHttp
    /\ server[i] = "listening" /\ port[i] = FirstPort
    /\ LoadedAddress(html[i]) = LoopbackAddress(FirstPort)
    /\ RelayTargetOrigin(html[i]) = LoopbackOrigin(FirstPort)

(***************************************************************************)
(* C15.  The demo server answers by the path of the request, the query     *)
(* ignored, and by whether the payload can be read at that moment: / and   *)
(* /index.html give 200 with the payload as text/html if it is readable    *)
(* and 500 if not; every other path gives 404 and the payload is not read. *)
(* Handling a request, whatever the answer, leaves the server listening    *)
(* and the session as it is.                                               *)
(***************************************************************************)
\* the requests whose path is / or /index.html
IndexRequests == {ReqRoot, ReqIndex, ReqRootQuery, ReqIndexQuery}

C15_ResponseByPathAndRead ==
  /\ [](\A i \in Instances :
         (res[i] # NoResponse /\ res[i].url # NoReqUrl) =>
           IF res[i].url \in IndexRequests
           THEN /\ res[i].read
                /\ IF res[i].readable
                   THEN /\ res[i].statusCode = 200
                        /\ res[i].contentType # NoHeader
                        /\ res[i].contentType[1] = "text/html"
                        /\ res[i].body = DemoPayload
                   ELSE res[i].statusCode = 500
           ELSE res[i].statusCode = 404 /\ ~res[i].read)
  /\ [][\A i \in Instances :
          res'[i] # res[i] =>
            /\ server'[i] = "listening"
            /\ UNCHANGED <<previewByDoc, pc, panel, html, server, port,
                           subscribed, handler, timer, pending>>]_vars

\* an open session's server has answered 404 to a request whose query, not
\* its path, names the index page
C15_Witness ==
  \E i \in Instances :
    /\ res[i] # NoResponse
    /\ res[i].url = ReqMissingQuery
    /\ res[i].statusCode = 404
    /\ server[i] = "listening"
    /\ panel[i] = "live" /\ subscribed[i] /\ previewByDoc[key[i]] = i

(***************************************************************************)
(* C17.  Eventual synchronization.  For a session whose panel stays open,  *)
(* given that time passes and due timers fire: once the open command has   *)
(* completed, a snapshot of the document as it then is gets sent, also if  *)
(* no change ever occurs; and after every change, once changes stop, a     *)
(* snapshot with the final version and text gets sent.                     *)
(***************************************************************************)
\* the snapshot sent last carries the document as it is now
Synced(i) ==
  /\ log[i] # <<>>
  /\ Last(log[i]).kind = "send"
  /\ Last(log[i]).version = docs[key[i]].version
  /\ Last(log[i]).text = docs[key[i]].text

C17_EventuallySynchronized ==
  \A i \in Instances :
    /\ (pc[i] = "done") ~> (panel[i] # "live" \/ Synced(i))
    /\ <>[](pc[i] = "done" => (panel[i] # "live" \/ Synced(i)))

\* all changes of the run made, and the open session has sent the final
\* version after an earlier snapshot of an older one
C17_Witness ==
  \E i \in Instances :
    /\ panel[i] = "live" /\ Synced(i)
    /\ Edits = scope.edits
    /\ docs[key[i]].version > 1
    /\ \E k \in 1..Len(log[i]) :
         log[i][k].kind = "send" /\ log[i][k].version < docs[key[i]].version

(***************************************************************************)
(* C18.  A change of a document other than the session's own has no effect *)
(* on the session: no send is scheduled, and the session's pending timer   *)
(* is neither cancelled nor restarted, so its snapshot is neither delayed  *)
(* nor suppressed.                                                         *)
(***************************************************************************)
C18_OtherDocumentIgnored ==
  [][\A u \in Uris :
       docs'[u] # docs[u] =>
         \A i \in Instances :
           (subscribed[i] /\ key[i] # u) =>
             /\ timer'[i] = timer[i]
             /\ pending'[i] = pending[i]
             /\ quiet'[i] = quiet[i]
             /\ log'[i] = log[i]]_vars

\* the other document has changed twice while the session's own document
\* has not, and the session has sent the one snapshot it scheduled, a full
\* delay after scheduling it
C18_Witness ==
  \E i \in Instances :
    /\ key[i] = DocA.uri /\ panel[i] = "live"
    /\ docs[DocB.uri].version = 3
    /\ DebounceMs(cfg) > 0
    /\ Len(log[i]) = 2
    /\ log[i][1].kind = "sched" /\ log[i][2].kind = "send"
    /\ log[i][2].elapsed = DebounceMs(cfg)
    /\ pending[i] = <<>>

(***************************************************************************)
(* C19.  Within one session the versions of the snapshots sent never       *)
(* decrease, and every snapshot carries the text and version the document  *)
(* has when the timer fires, not those it had when the send was scheduled; *)
(* versions in between may be skipped.                                     *)
(***************************************************************************)
Sends(i) == {k \in 1..Len(log[i]) : log[i][k].kind = "send"}

C19_SnapshotsCurrentAndOrdered ==
  /\ [](\A i \in Instances : \A k, m \in Sends(i) :
         k < m => log[i][k].version <= log[i][m].version)
  /\ [][\A i \in Instances :
          (Len(log'[i]) = Len(log[i]) + 1 /\ Last(log'[i]).kind = "send") =>
            /\ Last(log'[i]).version = docs[key[i]].version
            /\ Last(log'[i]).text = docs[key[i]].text]_vars

\* an open session has sent version 1 and then version 3, and never
\* version 2
C19_Witness ==
  \E i \in Instances :
    /\ panel[i] = "live"
    /\ \E k, m \in Sends(i) :
         k < m /\ log[i][k].version = 1 /\ log[i][m].version = 3
    /\ \A k \in Sends(i) : log[i][k].version # 2 /\ log[i][k].live

(***************************************************************************)
(* C20.  With debounceMs 0, or negative and so clamped to 0: the timer a   *)
(* schedule call arms is due at once; a notification that arrives after    *)
(* the timer of the previous one has fired gets a snapshot of its own; and *)
(* schedule calls with no firing between them get exactly one snapshot     *)
(* together, carrying the last one's version.                              *)
(***************************************************************************)
\* the schedule calls that end a run of calls with no firing in between
Runs(i) ==
  {k \in 1..Len(log[i]) :
     /\ log[i][k].kind = "sched"
     /\ k = Len(log[i]) \/ log[i][k + 1].kind = "send"}

C20_ZeroDelay ==
  cfg.debounceMs <= 0 =>
    \A i \in Instances :
      (panel[i] = "live" /\ log[i] # <<>>) =>
        /\ pending[i] = (IF Last(log[i]).kind = "sched" THEN <<0>> ELSE <<>>)
        /\ \A k \in Sends(i) :
             /\ k > 1
             /\ log[i][k - 1].kind = "sched"
             /\ log[i][k].version = log[i][k - 1].version
             /\ log[i][k].text = log[i][k - 1].text
        /\ Cardinality(Sends(i)) + Len(pending[i]) = Cardinality(Runs(i))

\* under debounceMs -1: the initial call and a change with no firing
\* between them got one snapshot, of version 2; the next change, after that
\* firing, got its own, of version 3
C20_Witness ==
  \E i \in Instances :
    /\ cfg.debounceMs < 0
    /\ panel[i] = "live"
    /\ Len(log[i]) = 5
    /\ log[i][1].kind = "sched" /\ log[i][2].kind = "sched"
    /\ log[i][3].kind = "send" /\ log[i][3].version = 2
    /\ log[i][4].kind = "sched"
    /\ log[i][5].kind = "send" /\ log[i][5].version = 3

====
